---- MODULE Spec2Model ----
(***************************************************************************)
(* A model of src/src/axes_common.rs of RustGnuplot: the plot elements,    *)
(* the per-axis tick/range/log state and the axes aggregator that compiles *)
(* them into gnuplot commands and inline binary data.                      *)
(*                                                                         *)
(* Byte buffers that hold text (Vec<u8> written through Writer) are        *)
(* strings; a binary payload is the sequence of the f64 values written by  *)
(* write_data, one entry per 8-byte little-endian double.                  *)
(***************************************************************************)
EXTENDS Integers, Sequences, FiniteSets, TLC

VARIABLES
    commands,   \* AxesCommonData.commands
    elems,      \* AxesCommonData.elems: sequence of [args, data]
    grid_rows,  \* AxesCommonData.grid_rows (u32)
    grid_cols,  \* AxesCommonData.grid_cols (u32)
    grid_pos,   \* AxesCommonData.grid_pos (Option<u32>)
    x_axis,     \* AxesCommonData.x_axis
    y_axis,     \* AxesCommonData.y_axis
    cb_axis,    \* AxesCommonData.cb_axis
    panicked,   \* TRUE once a call has panicked (the construction is aborted)
    call,       \* the most recent call and its arguments
    res,        \* what the most recent call returned or wrote to its writer
    last_pos,   \* the last positioning call that returned: "none", "set_pos", "set_pos_grid"
    ncmds,      \* how many calls have written to the command buffer
    focus       \* the axis object the per-axis specification works on

vars == <<commands, elems, grid_rows, grid_cols, grid_pos, x_axis, y_axis,
          cb_axis, panicked, call, res, last_pos, ncmds, focus>>

aggregator == <<commands, elems, grid_rows, grid_cols, grid_pos, x_axis,
                y_axis, cb_axis>>

----------------------------------------------------------------------------
(* Option<T> and AutoOption<T>: the empty tuple is None / Auto, a          *)
(* one-element tuple is Some(v) / Fix(v).                                  *)

None == <<>>
Some(v) == <<v>>
Auto == <<>>
Fix(v) == <<v>>

----------------------------------------------------------------------------
(* f64 / f32 values: a rational <<n, d>> with d > 0 in lowest terms, or    *)
(* NaN.  Comparisons with NaN are false, as in IEEE-754.                   *)

NaN == <<0, 0>>
IsNaN(a) == a[2] = 0

Abs(n) == IF n < 0 THEN -n ELSE n

RECURSIVE Gcd(_, _)
Gcd(a, b) == IF b = 0 THEN a ELSE Gcd(b, a % b)

Rat(n, d) ==
    LET g == Gcd(Abs(n), Abs(d))
        s == IF d < 0 THEN -1 ELSE 1
    IN  <<(s * n) \div g, (s * d) \div g>>

F(n) == <<n, 1>>

\* comparisons of values in lowest terms; equal values need no products
FLt(a, b) == ~IsNaN(a) /\ ~IsNaN(b) /\ a # b /\ a[1] * b[2] < b[1] * a[2]
FLe(a, b) == ~IsNaN(a) /\ ~IsNaN(b) /\ (a = b \/ a[1] * b[2] <= b[1] * a[2])
FGt(a, b) == FLt(b, a)
FGe(a, b) == FLe(b, a)

FSub(a, b) ==
    IF IsNaN(a) \/ IsNaN(b) THEN NaN
    ELSE Rat(a[1] * b[2] - b[1] * a[2], a[2] * b[2])

\* a / b for b a non-zero finite value (the only divisors the code uses)
FDiv(a, b) ==
    IF IsNaN(a) \/ IsNaN(b) THEN NaN
    ELSE Rat(a[1] * b[2], a[2] * b[1])

RECURSIVE DigitsStr(_)
DigitsStr(ds) == IF ds = <<>> THEN "" ELSE ToString(Head(ds)) \o DigitsStr(Tail(ds))

\* <<a, d, e>> with a / d in [1, 10) and a / d * 10^e the value given
RECURSIVE Normalize(_, _, _)
Normalize(a, d, e) ==
    IF a >= 10 * d THEN Normalize(a, 10 * d, e + 1)
    ELSE IF a < d THEN Normalize(10 * a, d, e - 1)
    ELSE <<a, d, e>>

\* the first k digits of the decimal expansion of a / d (a / d < 10)
RECURSIVE LongDiv(_, _, _)
LongDiv(a, d, k) ==
    IF k = 0 THEN <<>> ELSE <<a \div d>> \o LongDiv((a % d) * 10, d, k - 1)

\* ten times the remainder left after k digits
RECURSIVE LongRem(_, _, _)
LongRem(a, d, k) == IF k = 0 THEN a ELSE LongRem((a % d) * 10, d, k - 1)

RECURSIVE IncDigits(_)
IncDigits(ds) ==
    LET n == Len(ds) IN
    IF n = 0 THEN <<>>
    ELSE IF ds[n] < 9 THEN [ds EXCEPT ![n] = ds[n] + 1]
    ELSE Append(IncDigits(SubSeq(ds, 1, n - 1)), 0)

Precision == 12

\* k zeros, k in 0..Precision
ZeroDigits == [k \in 0..Precision |-> DigitsStr([i \in 1..k |-> 0])]

\* the decimal expansion of a / d ends within k digits
RECURSIVE Terminates(_, _, _)
Terminates(a, d, k) == a = 0 \/ (k > 0 /\ Terminates((a % d) * 10, d, k - 1))

\* the next k digits of a / d (a < 10 * d) as text
RECURSIVE Fraction(_, _, _)
Fraction(a, d, k) ==
    IF k = 0 THEN ""
    ELSE IF a = 0 THEN ZeroDigits[k]
    ELSE ToString(a \div d) \o Fraction((a % d) * 10, d, k - 1)

\* format!("{:.12e}", v): one digit, a point, 12 digits rounded to nearest
\* (ties to even), "e" and the decimal exponent
Fmt12e(v) ==
    IF IsNaN(v) THEN "NaN"
    ELSE IF v[1] = 0 THEN "0." \o ZeroDigits[Precision] \o "e0"
    ELSE
      LET nm == Normalize(Abs(v[1]), v[2], 0)
          sign == IF v[1] < 0 THEN "-" ELSE ""
      IN  IF Terminates(nm[1], nm[2], Precision + 1)
          THEN \* nothing to round
               sign \o ToString(nm[1] \div nm[2]) \o "."
               \o Fraction((nm[1] % nm[2]) * 10, nm[2], Precision)
               \o "e" \o ToString(nm[3])
          ELSE
            LET ds == LongDiv(nm[1], nm[2], Precision + 1)
                r  == LongRem(nm[1], nm[2], Precision + 1)
                up == r > 5 * nm[2] \/ (r = 5 * nm[2] /\ ds[Precision + 1] % 2 = 1)
                all9 == \A i \in 1..(Precision + 1) : ds[i] = 9
                rs == IF ~up THEN ds
                      ELSE IF all9 THEN <<1>> \o [i \in 1..Precision |-> 0]
                      ELSE IncDigits(ds)
                e  == IF up /\ all9 THEN nm[3] + 1 ELSE nm[3]
            IN  sign \o ToString(rs[1]) \o "." \o DigitsStr(Tail(rs))
                \o "e" \o ToString(e)

\* the fraction digits of a / d (a < d) up to the last non-zero one
RECURSIVE FracDigits(_, _, _)
FracDigits(a, d, k) ==
    IF a = 0 \/ k = 0 THEN ""
    ELSE ToString((a * 10) \div d) \o FracDigits((a * 10) % d, d, k - 1)

MaxFracDigits == 17

\* format!("{}", v) of a float: the shortest decimal that reads back
FDisplay(v) ==
    IF IsNaN(v) THEN "NaN"
    ELSE LET a == Abs(v[1])
             fr == FracDigits(a % v[2], v[2], MaxFracDigits)
         IN  (IF v[1] < 0 THEN "-" ELSE "") \o ToString(a \div v[2])
             \o (IF fr = "" THEN "" ELSE "." \o fr)

----------------------------------------------------------------------------
(* u32 values: <<hi, lo>>, the two 16-bit halves, so that the whole range  *)
(* and the wrap-around of a multiplication are representable.              *)

Half == 256 * 256

U32(hi, lo) == <<hi, lo>>
U32Lt(a, b) == a[1] < b[1] \/ (a[1] = b[1] /\ a[2] < b[2])
U32IsZero(a) == a = <<0, 0>>

\* x * y for 16-bit x and y as <<high half, low half>>
Mul16(x, y) ==
    LET p1 == x * (y \div 256)
        p0 == x * (y % 256)
        lo == (p1 % 256) * 256 + p0
    IN  <<(p1 \div 256) + (lo \div Half), lo % Half>>

\* a * b for u32 a and b: the low 32 bits and whether the product needed more
U32Mul(a, b) ==
    LET ll == Mul16(a[2], b[2])
        hl == Mul16(a[1], b[2])
        lh == Mul16(a[2], b[1])
        hh == Mul16(a[1], b[1])
        mid == ll[1] + hl[2] + lh[2]
    IN  [value |-> <<mid % Half, ll[2]>>,
         overflow |-> hh # <<0, 0>> \/ hl[1] # 0 \/ lh[1] # 0 \/ mid >= Half]

\* `m as i32` for a u32 m: the two's complement reading of the same 32 bits
U32AsI32(m) ==
    IF m[1] < Half \div 2 THEN m[1] * Half + m[2] ELSE (m[1] - Half) * Half + m[2]

----------------------------------------------------------------------------
(* What a call that may panic hands back: the value returned, or the text  *)
(* it had written to its writer when it returned or panicked.              *)

Returned(v) == [panic |-> FALSE, value |-> v]
Panics == [panic |-> TRUE]
Wrote(t) == [panic |-> FALSE, text |-> t]
WroteThenPanicked(t) == [panic |-> TRUE, text |-> t]

----------------------------------------------------------------------------
(* Option lists.  An option is [kind, s, f, f2, b]: the variant and its    *)
(* string, float and boolean payloads (unused payloads hold a filler).     *)

Opt(kind, s, f, f2, b) == [kind |-> kind, s |-> s, f |-> f, f2 |-> f2, b |-> b]

\* PlotOption
PointSymbol(c) == Opt("PointSymbol", c, F(0), F(0), FALSE)
PointSize(z)   == Opt("PointSize", "", z, F(0), FALSE)
Caption(s)     == Opt("Caption", s, F(0), F(0), FALSE)
LineWidth(w)   == Opt("LineWidth", "", w, F(0), FALSE)
Color(s)       == Opt("Color", s, F(0), F(0), FALSE)
BorderColor(s) == Opt("BorderColor", s, F(0), F(0), FALSE)
LineStyle(d)   == Opt("LineStyle", d, F(0), F(0), FALSE)
FillAlpha(a)   == Opt("FillAlpha", "", a, F(0), FALSE)
FillRegion(d)  == Opt("FillRegion", d, F(0), F(0), FALSE)

\* LabelOption
TextOffset(x, y) == Opt("TextOffset", "", x, y, FALSE)
TextColor(s)     == Opt("TextColor", s, F(0), F(0), FALSE)
Font(f, s)       == Opt("Font", f, s, F(0), FALSE)
Rotate(a)        == Opt("Rotate", "", a, F(0), FALSE)
MarkerSymbol(c)  == Opt("MarkerSymbol", c, F(0), F(0), FALSE)
MarkerColor(s)   == Opt("MarkerColor", s, F(0), F(0), FALSE)
MarkerSize(z)    == Opt("MarkerSize", "", z, F(0), FALSE)
TextAlign(a)     == Opt("TextAlign", a, F(0), F(0), FALSE)

\* TickOption
OnAxis(b)     == Opt("OnAxis", "", F(0), F(0), b)
Mirror(b)     == Opt("Mirror", "", F(0), F(0), b)
Inward(b)     == Opt("Inward", "", F(0), F(0), b)
MinorScale(s) == Opt("MinorScale", "", s, F(0), FALSE)
MajorScale(s) == Opt("MajorScale", "", s, F(0), FALSE)

\* first_opt!{options, Kind(..) => ..}: the loop over the list that runs the
\* body on the first entry of the kind and stops; None when there is none
RECURSIVE first_opt(_, _)
first_opt(options, kind) ==
    IF options = <<>> THEN None
    ELSE IF Head(options).kind = kind THEN Some(Head(options))
    ELSE first_opt(Tail(options), kind)

\* DashType::to_int
DashType_to_int(d) ==
    CASE d = "Solid" -> 1
      [] d = "SmallDot" -> 0
      [] d = "Dash" -> 2
      [] d = "Dot" -> 3
      [] d = "DotDash" -> 4
      [] d = "DotDotDash" -> 5

----------------------------------------------------------------------------
(* char_to_symbol                                                          *)

\* a variant with a typo in one arm ('O' for 'o' twice) and a default arm
char_to_symbol_Typo(c) ==
    LET t == <<".", "+", "x", "*", "s", "S", "O", "O", "t", "T", "d", "D", "r", "R">>
    IN  IF \E i \in 1..Len(t) : t[i] = c
        THEN Returned((CHOOSE i \in 1..Len(t) : t[i] = c) - 1)
        ELSE Panics

char_to_symbol(c) ==
    CASE c = "." -> Returned(0)
      [] c = "+" -> Returned(1)
      [] c = "x" -> Returned(2)
      [] c = "*" -> Returned(3)
      [] c = "s" -> Returned(4)
      [] c = "S" -> Returned(5)
      [] c = "o" -> Returned(6)
      [] c = "O" -> Returned(7)
      [] c = "t" -> Returned(8)
      [] c = "T" -> Returned(9)
      [] c = "d" -> Returned(10)
      [] c = "D" -> Returned(11)
      [] c = "r" -> Returned(12)
      [] c = "R" -> Returned(13)
      [] OTHER   -> Panics

----------------------------------------------------------------------------
(* LabelType and write_out_label_options.  A label type is [kind, x, y];   *)
(* x and y are the two coordinates of Label(x, y) as their Display         *)
(* implementation prints them.                                             *)

LabelType(kind) == [kind |-> kind, x |-> "", y |-> ""]
Label(x, y) == [kind |-> "Label", x |-> x, y |-> y]
AxesTicks == LabelType("AxesTicks")

\* is_label answering true for every kind
is_label_Always(label_type) == label_type.kind = label_type.kind

is_label(label_type) == label_type.kind = "Label"

write_out_label_options(label_type, options) ==
    LET at  == IF label_type.kind = "Label"
               THEN " at " \o label_type.x \o "," \o label_type.y \o " front"
               ELSE ""
        o1  == first_opt(options, "TextOffset")
        off == IF o1 = None THEN ""
               ELSE " offset character " \o Fmt12e(o1[1].f) \o "," \o Fmt12e(o1[1].f2)
        o2  == first_opt(options, "TextColor")
        tc  == IF o2 = None THEN "" ELSE " tc rgb \"" \o o2[1].s \o "\""
        o3  == first_opt(options, "Font")
        fnt == IF o3 = None THEN ""
               ELSE " font \"" \o o3[1].s \o "," \o FDisplay(o3[1].f) \o "\""
        o4  == first_opt(options, "Rotate")
        rot == IF o4 = None THEN "" ELSE " rotate by " \o Fmt12e(o4[1].f)
        base == at \o off \o tc \o fnt \o rot
        o5  == first_opt(options, "MarkerSymbol")
        sym == IF o5 = None THEN Returned(0) ELSE char_to_symbol(o5[1].s)
        o6  == first_opt(options, "MarkerColor")
        o7  == first_opt(options, "MarkerSize")
        o8  == first_opt(options, "TextAlign")
        pt  == IF o5 = None THEN ""
               ELSE " point pt " \o ToString(sym.value)
                    \o (IF o6 = None THEN "" ELSE " lc rgb \"" \o o6[1].s \o "\"")
                    \o (IF o7 = None THEN "" ELSE " ps " \o Fmt12e(o7[1].f))
        al  == IF o8 = None THEN ""
               ELSE IF o8[1].s = "AlignLeft" THEN " left"
               ELSE IF o8[1].s = "AlignRight" THEN " right"
               ELSE " center"
    IN  IF ~is_label(label_type) THEN Wrote(base)
        ELSE IF sym.panic THEN WroteThenPanicked(base)
        ELSE Wrote(base \o pt \o al)

----------------------------------------------------------------------------
(* TickAxis                                                                *)

TickAxes == {"x", "y", "z", "cb"}

to_axis_str(axis) == axis
to_tick_str(axis) == axis \o "tics"
to_range_str(axis) == axis \o "range"

----------------------------------------------------------------------------
(* AxisData                                                                *)

AxisData_new(axis) ==
    [ticks_buf |-> "", log_base |-> None, mticks |-> 0, axis |-> axis,
     min |-> Auto, max |-> Auto]

\* what set_ticks_options appends to ticks_buf
set_ticks_options(tick_options, label_options) ==
    LET lab == write_out_label_options(AxesTicks, label_options).text
        a   == first_opt(tick_options, "OnAxis")
        m   == first_opt(tick_options, "Mirror")
        i   == first_opt(tick_options, "Inward")
        mn  == first_opt(tick_options, "MinorScale")
        mj  == first_opt(tick_options, "MajorScale")
        minor_scale == IF mn = None THEN Rat(1, 2) ELSE mn[1].f
        major_scale == IF mj = None THEN Rat(1, 2) ELSE mj[1].f
    IN  lab
        \o (IF a = None THEN "" ELSE IF a[1].b THEN " axis" ELSE " border")
        \o (IF m = None THEN "" ELSE IF m[1].b THEN " mirror" ELSE " nomirror")
        \o (IF i = None THEN "" ELSE IF i[1].b THEN " in" ELSE " out")
        \o " scale " \o Fmt12e(minor_scale) \o "," \o Fmt12e(major_scale)

\* Tick<T>: Minor(pos) and Major(pos, label), label an AutoOption<String>
Minor(pos) == [kind |-> "Minor", pos |-> pos, label |-> Auto]
Major(pos, label) == [kind |-> "Major", pos |-> pos, label |-> label]

\* the text the loop of set_ticks_custom writes for the ticks from the i-th on
RECURSIVE TickList(_, _)
TickList(ticks, i) ==
    IF i > Len(ticks) THEN ""
    ELSE LET tick  == ticks[i]
             label == IF tick.kind = "Minor" THEN Auto ELSE tick.label
             level == IF tick.kind = "Minor" THEN 1 ELSE 0
         IN  (IF i = 1 THEN "" ELSE ",")
             \o (IF label = Auto THEN "" ELSE "\"" \o label[1] \o "\" ")
             \o Fmt12e(tick.pos) \o " " \o ToString(level)
             \o TickList(ticks, i + 1)

\* AxisData::set_ticks_custom: the axis after the call
AxisData_set_ticks_custom(self, ticks, tick_options, label_options) ==
    [self EXCEPT
       !.mticks = 0,
       !.ticks_buf = "set " \o to_tick_str(self.axis) \o " ("
                     \o TickList(ticks, 1) \o ")"
                     \o set_ticks_options(tick_options, label_options)
                     \o "\n"]

\* a variant that tests incr < 0.0, letting a zero increment through
AxisData_set_ticks_ZeroPasses(self, tick_placement, tick_options, label_options) ==
    IF tick_placement = None
    THEN [panic |-> FALSE,
          self |-> [self EXCEPT
                      !.ticks_buf = "unset " \o to_tick_str(self.axis) \o "\n",
                      !.mticks = 0]]
    ELSE LET incr   == tick_placement[1][1]
             mticks == tick_placement[1][2]
             head   == "set " \o to_tick_str(self.axis)
         IN  IF incr # Auto /\ FLt(incr[1], F(0))
             THEN [panic |-> TRUE, self |-> [self EXCEPT !.ticks_buf = head]]
             ELSE [panic |-> FALSE,
                   self |-> [self EXCEPT
                      !.ticks_buf =
                          head
                          \o (IF incr = Auto THEN " autofreq"
                              ELSE " " \o " " \o Fmt12e(incr[1]))
                          \o set_ticks_options(tick_options, label_options)
                          \o "\n",
                      !.mticks = U32AsI32(mticks)]]

\* AxisData::set_ticks: [panic, self], the axis as the call leaves it
AxisData_set_ticks(self, tick_placement, tick_options, label_options) ==
    IF tick_placement = None
    THEN [panic |-> FALSE,
          self |-> [self EXCEPT
                      !.ticks_buf = "unset " \o to_tick_str(self.axis) \o "\n",
                      !.mticks = 0]]
    ELSE LET incr   == tick_placement[1][1]
             mticks == tick_placement[1][2]
             head   == "set " \o to_tick_str(self.axis)
         IN  IF incr # Auto /\ FLe(incr[1], F(0))
             THEN [panic |-> TRUE, self |-> [self EXCEPT !.ticks_buf = head]]
             ELSE [panic |-> FALSE,
                   self |-> [self EXCEPT
                      !.ticks_buf =
                          head
                          \o (IF incr = Auto THEN " autofreq"
                              ELSE " " \o " " \o Fmt12e(incr[1]))
                          \o set_ticks_options(tick_options, label_options)
                          \o "\n",
                      !.mticks = U32AsI32(mticks)]]

AxisData_set_range(self, min, max) == [self EXCEPT !.min = min, !.max = max]

AxisData_set_log(self, base) == [self EXCEPT !.log_base = base]

----------------------------------------------------------------------------
(* A Writer that receives text and binary data: the sequence of the runs   *)
(* of text and of doubles written to it, in order.  A run is [text, data]  *)
(* with one of the two empty; adjacent runs of the same kind are one run.  *)

EmptyWriter == <<>>

write_str(w, t) ==
    IF t = "" THEN w
    ELSE IF w # <<>> /\ w[Len(w)].data = <<>>
         THEN [w EXCEPT ![Len(w)].text = @ \o t]
         ELSE Append(w, [text |-> t, data |-> <<>>])

write_bin(w, d) ==
    IF d = <<>> THEN w
    ELSE IF w # <<>> /\ w[Len(w)].text = ""
         THEN [w EXCEPT ![Len(w)].data = @ \o d]
         ELSE Append(w, [text |-> "", data |-> d])

----------------------------------------------------------------------------
(* PlotType                                                                *)

PlotTypes == {"Lines", "Points", "LinesPoints", "XErrorLines", "YErrorLines",
              "FillBetween", "Boxes", "Pm3D", "Image"}

is_line(plot_type) ==
    plot_type \in {"Lines", "LinesPoints", "XErrorLines", "Boxes", "YErrorLines"}

is_points(plot_type) ==
    plot_type \in {"Points", "LinesPoints", "XErrorLines", "YErrorLines"}

is_fill(plot_type) == plot_type \in {"Boxes", "FillBetween"}

type_str(plot_type) ==
    CASE plot_type = "Lines" -> "lines"
      [] plot_type = "Points" -> "points"
      [] plot_type = "LinesPoints" -> "linespoints"
      [] plot_type = "XErrorLines" -> "xerrorlines"
      [] plot_type = "YErrorLines" -> "yerrorlines"
      [] plot_type = "FillBetween" -> "filledcurves"
      [] plot_type = "Boxes" -> "boxes"
      [] plot_type = "Pm3D" -> "pm3d"
      [] plot_type = "Image" -> "image"

----------------------------------------------------------------------------
(* DataSourceType                                                          *)

Record == [kind |-> "Record", x1 |-> F(0), y1 |-> F(0), x2 |-> F(0), y2 |-> F(0)]
Array == [kind |-> "Array", x1 |-> F(0), y1 |-> F(0), x2 |-> F(0), y2 |-> F(0)]
SizedArray(x1, y1, x2, y2) ==
    [kind |-> "SizedArray", x1 |-> x1, y1 |-> y1, x2 |-> x2, y2 |-> y2]

----------------------------------------------------------------------------
(* AxesCommonData                                                          *)

PlotElement_new == [args |-> "", data |-> <<>>]

\* the text write_line_options writes
write_line_options(options) ==
    LET w == first_opt(options, "LineWidth")
        d == first_opt(options, "LineStyle")
    IN  " lw " \o (IF w # None THEN Fmt12e(w[1].f) ELSE "1")
        \o " lt " \o (IF d # None THEN ToString(DashType_to_int(d[1].s)) ELSE "1")

\* a variant in which the default colour, when given, overrides the option
write_color_options_DefaultWins(options, default) ==
    LET c   == first_opt(options, "Color")
        col == IF default # None THEN default
               ELSE IF c # None THEN Some(c[1].s) ELSE None
    IN  IF col # None THEN " lc rgb \"" \o col[1] \o "\"" ELSE ""

\* the text write_color_options writes; default is an Option<&str>
write_color_options(options, default) ==
    LET c   == first_opt(options, "Color")
        col == IF c # None THEN Some(c[1].s) ELSE default
    IN  IF col # None THEN " lc rgb \"" \o col[1] \o "\"" ELSE ""

\* the column list "1:2[:3]" the while loop writes from col_idx on
RECURSIVE UsingColumns(_, _)
UsingColumns(col_idx, num_cols) ==
    IF ~(col_idx < num_cols + 1) THEN ""
    ELSE ToString(col_idx) \o (IF col_idx < num_cols THEN ":" ELSE "")
         \o UsingColumns(col_idx + 1, num_cols)

\* the first write of write_common_commands: the data source and its
\* declared size (record=<rows>, or array=(<cols>,<rows>))
SourceHead(num_rows, num_cols, source_type) ==
    IF source_type.kind = "Record"
    THEN " \"-\" binary endian=little record=" \o ToString(num_rows)
         \o " format=\"%float64\" using "
    ELSE " \"-\" binary endian=little array=(" \o ToString(num_cols) \o ","
         \o ToString(num_rows) \o ") format=\"%float64\" "

\* SourceTail without the two swaps of the corners
SourceTail_NoSwap(num_rows, num_cols, source_type, is_3d) ==
    IF source_type.kind = "Record" THEN UsingColumns(1, num_cols)
    ELSE IF source_type.kind # "SizedArray" THEN ""
    ELSE "origin=(" \o Fmt12e(source_type.x1) \o "," \o Fmt12e(source_type.y1)
         \o (IF is_3d THEN ",0" ELSE "") \o ") "
         \o (IF num_cols > 1
             THEN "dx=" \o Fmt12e(FDiv(FSub(source_type.x2, source_type.x1),
                                       F(num_cols - 1))) \o " "
             ELSE "dx=1 ")
         \o (IF num_rows > 1
             THEN "dy=" \o Fmt12e(FDiv(FSub(source_type.y2, source_type.y1),
                                       F(num_rows - 1))) \o " "
             ELSE "dy=1 ")

\* the rest of the source clause: the columns of a record, or the origin
\* and the spacing of a sized array
SourceTail(num_rows, num_cols, source_type, is_3d) ==
    IF source_type.kind = "Record" THEN UsingColumns(1, num_cols)
    ELSE IF source_type.kind # "SizedArray" THEN ""
    ELSE LET sx == FGt(source_type.x1, source_type.x2)
             sy == FGt(source_type.y1, source_type.y2)
             x1 == IF sx THEN source_type.x2 ELSE source_type.x1
             x2 == IF sx THEN source_type.x1 ELSE source_type.x2
             y1 == IF sy THEN source_type.y2 ELSE source_type.y1
             y2 == IF sy THEN source_type.y1 ELSE source_type.y2
         IN  "origin=(" \o Fmt12e(x1) \o "," \o Fmt12e(y1)
             \o (IF is_3d THEN ",0" ELSE "") \o ") "
             \o (IF num_cols > 1
                 THEN "dx=" \o Fmt12e(FDiv(FSub(x2, x1), F(num_cols - 1))) \o " "
                 ELSE "dx=1 ")
             \o (IF num_rows > 1
                 THEN "dy=" \o Fmt12e(FDiv(FSub(y2, y1), F(num_rows - 1))) \o " "
                 ELSE "dy=1 ")

\* the fill clause ending in "border" for every fill type
FillClause_AlwaysBorder(plot_type, options) ==
    LET r == first_opt(options, "FillRegion")
        a == first_opt(options, "FillAlpha")
        b == first_opt(options, "BorderColor")
    IN  (IF plot_type # "FillBetween" THEN ""
         ELSE IF r = None THEN " closed"
         ELSE IF r[1].s = "Above" THEN " above"
         ELSE IF r[1].s = "Below" THEN " below"
         ELSE " closed")
        \o " fill transparent solid "
        \o (IF a = None THEN "" ELSE Fmt12e(a[1].f))
        \o " border" \o (IF b = None THEN "" ELSE " rgb \"" \o b[1].s \o "\"")

\* the fill clause of write_common_commands (plot_type.is_fill())
FillClause(plot_type, options) ==
    LET r == first_opt(options, "FillRegion")
        a == first_opt(options, "FillAlpha")
        b == first_opt(options, "BorderColor")
    IN  (IF plot_type # "FillBetween" THEN ""
         ELSE IF r = None THEN " closed"
         ELSE IF r[1].s = "Above" THEN " above"
         ELSE IF r[1].s = "Below" THEN " below"
         ELSE " closed")
        \o " fill transparent solid "
        \o (IF a = None THEN "" ELSE Fmt12e(a[1].f))
        \o (IF is_line(plot_type)
            THEN " border" \o (IF b = None THEN "" ELSE " rgb \"" \o b[1].s \o "\"")
            ELSE " noborder")

\* the clauses of write_common_commands after the source clause: the text
\* written, and whether char_to_symbol panicked on the way
StyleClauses(plot_type, options) ==
    LET head == " with " \o type_str(plot_type)
                \o (IF is_fill(plot_type) THEN FillClause(plot_type, options) ELSE "")
                \o (IF is_line(plot_type) THEN write_line_options(options) ELSE "")
        s   == first_opt(options, "PointSymbol")
        z   == first_opt(options, "PointSize")
        sym == IF is_points(plot_type) /\ s # None
               THEN char_to_symbol(s[1].s) ELSE Returned(0)
        c   == first_opt(options, "Caption")
    IN  IF sym.panic THEN WroteThenPanicked(head)
        ELSE Wrote(head
               \o (IF is_points(plot_type) /\ s # None
                   THEN " pt " \o ToString(sym.value) ELSE "")
               \o (IF is_points(plot_type) /\ z # None
                   THEN " ps " \o FDisplay(z[1].f) ELSE "")
               \o write_color_options(options, None)
               \o " t \"" \o (IF c = None THEN "" ELSE c[1].s) \o "\"")

\* write_common_commands: what it writes to the element's args
write_common_commands(num_rows, num_cols, plot_type, source_type, is_3d, options) ==
    LET style == StyleClauses(plot_type, options)
    IN  [style EXCEPT !.text = SourceHead(num_rows, num_cols, source_type)
                               \o SourceTail(num_rows, num_cols, source_type, is_3d)
                               \o @]

\* the loop of plot2 over x1.zip(x2): the data written and the rows counted
RECURSIVE Zip2(_, _)
Zip2(x1, x2) ==
    IF x1 = <<>> \/ x2 = <<>> THEN [data |-> <<>>, num_rows |-> 0]
    ELSE LET rest == Zip2(Tail(x1), Tail(x2))
         IN  [data |-> <<Head(x1), Head(x2)>> \o rest.data,
              num_rows |-> rest.num_rows + 1]

\* the loop of plot3 over x1.zip(x2).zip(x3)
RECURSIVE Zip3(_, _, _)
Zip3(x1, x2, x3) ==
    IF x1 = <<>> \/ x2 = <<>> \/ x3 = <<>> THEN [data |-> <<>>, num_rows |-> 0]
    ELSE LET rest == Zip3(Tail(x1), Tail(x2), Tail(x3))
         IN  [data |-> <<Head(x1), Head(x2), Head(x3)>> \o rest.data,
              num_rows |-> rest.num_rows + 1]

\* a variant whose padding loop runs once too few
MatrixData_ShortPadding(mat, num_rows, num_cols) ==
    LET count == Len(mat)
    IN  IF count < num_rows * num_cols
        THEN mat \o [i \in 1..(num_rows * num_cols - count - 1) |-> NaN]
        ELSE mat

\* the data plot_matrix writes: every value of mat, then the NaN padding
MatrixData(mat, num_rows, num_cols) ==
    LET count == Len(mat)
    IN  IF count < num_rows * num_cols
        THEN mat \o [i \in 1..(num_rows * num_cols - count) |-> NaN]
        ELSE mat

\* the state a plot call leaves: the new element pushed at the end of elems
\* with its data and whatever write_common_commands wrote to its args
PushElement(data, r) ==
    /\ elems' = Append(elems, [PlotElement_new EXCEPT !.data = data, !.args = r.text])
    /\ panicked' = r.panic
    /\ res' = [panic |-> r.panic]
    /\ UNCHANGED <<commands, grid_rows, grid_cols, grid_pos, x_axis, y_axis,
                   cb_axis, last_pos, ncmds, focus>>

plot2(plot_type, x1, x2, options) ==
    /\ ~panicked
    /\ LET z == Zip2(x1, x2)
       IN  PushElement(z.data,
               write_common_commands(z.num_rows, 2, plot_type, Record, FALSE, options))
    /\ call' = [op |-> "plot2", plot_type |-> plot_type, x1 |-> x1, x2 |-> x2,
                options |-> options]

plot3(plot_type, x1, x2, x3, options) ==
    /\ ~panicked
    /\ LET z == Zip3(x1, x2, x3)
       IN  PushElement(z.data,
               write_common_commands(z.num_rows, 3, plot_type, Record, FALSE, options))
    /\ call' = [op |-> "plot3", plot_type |-> plot_type, x1 |-> x1, x2 |-> x2,
                x3 |-> x3, options |-> options]

plot_matrix(plot_type, is_3d, mat, num_rows, num_cols, dimensions, options) ==
    /\ ~panicked
    /\ LET source_type == IF dimensions = None THEN Array
                          ELSE SizedArray(dimensions[1][1], dimensions[1][2],
                                          dimensions[1][3], dimensions[1][4])
       IN  PushElement(MatrixData(mat, num_rows, num_cols),
               write_common_commands(num_rows, num_cols, plot_type, source_type,
                                     is_3d, options))
    /\ call' = [op |-> "plot_matrix", plot_type |-> plot_type, is_3d |-> is_3d,
                mat |-> mat, num_rows |-> num_rows, num_cols |-> num_cols,
                dimensions |-> dimensions, options |-> options]

\* the first loop of write_out_elements: the fragments, comma-separated
RECURSIVE WriteArgs(_, _, _)
WriteArgs(w, es, first) ==
    IF es = <<>> THEN w
    ELSE WriteArgs(write_str(write_str(w, IF first THEN "" ELSE ","), Head(es).args),
                   Tail(es), FALSE)

\* the second loop of write_out_elements: the payloads
RECURSIVE WriteData(_, _)
WriteData(w, es) ==
    IF es = <<>> THEN w ELSE WriteData(write_bin(w, Head(es).data), Tail(es))

\* a variant that writes the comma before every fragment, the first included
ElementsOutput_LeadingComma(es, cmd) ==
    WriteData(write_str(WriteArgs(write_str(EmptyWriter, cmd), es, FALSE), "\n"), es)

\* what write_out_elements writes to an empty writer
ElementsOutput(es, cmd) ==
    WriteData(write_str(WriteArgs(write_str(EmptyWriter, cmd), es, TRUE), "\n"), es)

write_out_elements(cmd) ==
    /\ ~panicked
    /\ call' = [op |-> "write_out_elements", cmd |-> cmd]
    /\ res' = [panic |-> FALSE, out |-> ElementsOutput(elems, cmd)]
    /\ UNCHANGED <<aggregator, panicked, last_pos, ncmds, focus>>

----------------------------------------------------------------------------
(* The state after AxesCommonData::new()                                   *)

FreshData ==
    /\ commands = ""
    /\ elems = <<>>
    /\ grid_rows = U32(0, 0)
    /\ grid_cols = U32(0, 0)
    /\ grid_pos = None
    /\ x_axis = AxisData_new("x")
    /\ y_axis = AxisData_new("y")
    /\ cb_axis = AxisData_new("cb")
    /\ panicked = FALSE
    /\ last_pos = "none"
    /\ ncmds = 0

Fresh == FreshData /\ call = [op |-> "new"] /\ res = [panic |-> FALSE]

Init == Fresh /\ focus = "x"

----------------------------------------------------------------------------
(* Inputs of the plot calls                                                *)

MaxLen == 3     \* longest input sequence
MaxDim == 2     \* largest num_rows and num_cols
MaxElems == 3   \* most elements of one aggregator (SpecElems)

\* the first k values of the data sequence b+1, b+2, ...
Data(b, k) == [i \in 1..k |-> F(b + i)]
DataSeqs(b) == {Data(b, k) : k \in 0..MaxLen}

PlotOptionLists ==
    { <<>>,
      <<Color("red"), Caption("a"), Color("blue")>>,
      <<LineWidth(F(2)), LineStyle("Dash"), PointSymbol("o"), PointSize(Rat(3, 2)),
        FillAlpha(Rat(1, 2)), FillRegion("Above"), BorderColor("black")>>,
      <<PointSymbol("Q"), PointSize(F(1))>> }

Dimensions ==
    { None,
      Some(<<F(0), F(0), F(2), F(4)>>),
      Some(<<F(3), F(1), F(0), F(1)>>) }

Cmds == {"plot", "splot"}

\* the first element of an aggregator, over all the inputs
FirstPlot2 ==
    /\ elems = <<>>
    /\ \E plot_type \in PlotTypes, x1 \in DataSeqs(0), x2 \in DataSeqs(10),
          options \in PlotOptionLists :
          plot2(plot_type, x1, x2, options)

FirstPlot3 ==
    /\ elems = <<>>
    /\ \E plot_type \in PlotTypes, x1 \in DataSeqs(0), x2 \in DataSeqs(10),
          x3 \in DataSeqs(20), options \in PlotOptionLists :
          plot3(plot_type, x1, x2, x3, options)

FirstPlotMatrix ==
    /\ elems = <<>>
    /\ \E plot_type \in PlotTypes, is_3d \in BOOLEAN, mat \in DataSeqs(0),
          num_rows \in 0..MaxDim, num_cols \in 0..MaxDim,
          dimensions \in Dimensions, options \in PlotOptionLists :
          plot_matrix(plot_type, is_3d, mat, num_rows, num_cols, dimensions, options)

WriteOutElements == \E cmd \in Cmds : write_out_elements(cmd)

NextPlot == FirstPlot2 \/ FirstPlot3 \/ FirstPlotMatrix \/ WriteOutElements

SpecPlot == Init /\ [][NextPlot]_vars

\* one element after the other, over a few inputs that differ in every part
AddPlot2 ==
    /\ Len(elems) < MaxElems
    /\ \/ plot2("Lines", Data(0, 2), Data(10, 1), <<>>)
       \/ plot2("Points", Data(0, 0), Data(10, 2), <<Caption("a")>>)
       \/ plot2("Points", Data(0, 1), Data(10, 1), <<PointSymbol("Q")>>)

AddPlot3 ==
    /\ Len(elems) < MaxElems
    /\ plot3("Boxes", Data(0, 1), Data(10, 2), Data(20, 2), <<Color("red")>>)

AddPlotMatrix ==
    /\ Len(elems) < MaxElems
    /\ \/ plot_matrix("Image", FALSE, Data(0, 1), 1, 2, None, <<>>)
       \/ plot_matrix("Pm3D", TRUE, Data(0, 0), 0, 0,
                      Some(<<F(0), F(0), F(1), F(1)>>), <<Caption("b")>>)

NextElems == AddPlot2 \/ AddPlot3 \/ AddPlotMatrix \/ WriteOutElements

SpecElems == Init /\ [][NextElems]_vars

----------------------------------------------------------------------------
(* Claims about the plot elements                                          *)

Min(a, b) == IF a < b THEN a ELSE b

LastElem == elems[Len(elems)]

\* the fragments of es joined by commas, built from the last one backwards
RECURSIVE JoinedArgs(_)
JoinedArgs(es) ==
    IF es = <<>> THEN ""
    ELSE IF Len(es) = 1 THEN es[1].args
    ELSE JoinedArgs(SubSeq(es, 1, Len(es) - 1)) \o "," \o es[Len(es)].args

\* the payloads of es one after the other, built from the last one backwards
RECURSIVE JoinedData(_)
JoinedData(es) ==
    IF es = <<>> THEN <<>>
    ELSE JoinedData(SubSeq(es, 1, Len(es) - 1)) \o es[Len(es)].data

\* C1: write_out_elements(cmd) writes cmd, the fragments of the elements in
\* insertion order with one comma between neighbours (none leading, none
\* trailing), one newline, and then the payloads in the same order; with no
\* element it writes cmd and the newline only.
C1_ElementsOutputInOrder ==
    call.op = "write_out_elements" =>
        LET text == [text |-> call.cmd \o JoinedArgs(elems) \o "\n", data |-> <<>>]
            bin  == [text |-> "", data |-> JoinedData(elems)]
        IN  res.out = IF bin.data = <<>> THEN <<text>> ELSE <<text, bin>>

\* C1 witness: three elements with different fragments and payloads, one of
\* them with no data, have been written out
C1_Witness ==
    /\ call.op = "write_out_elements"
    /\ Len(elems) = 3
    /\ elems[1].args # elems[2].args /\ elems[2].args # elems[3].args
    /\ elems[1].data # <<>> /\ elems[2].data = <<>> /\ elems[3].data # <<>>
    /\ Len(res.out) = 2

\* the option list names no point symbol that char_to_symbol rejects for a
\* point-classified plot type
ValidSymbol(plot_type, options) == ~StyleClauses(plot_type, options).panic

RecordDirective(rows) ==
    " \"-\" binary endian=little record=" \o ToString(rows) \o " format=\"%float64\" using "

ArrayDirective(cols, rows) ==
    " \"-\" binary endian=little array=(" \o ToString(cols) \o "," \o ToString(rows)
    \o ") format=\"%float64\" "

\* the directive of the last element declares `decl` and goes on as the call wrote it
DeclaresRecord(rows, ncols) ==
    LastElem.args = RecordDirective(rows) \o SourceTail(rows, ncols, Record, FALSE)
                    \o StyleClauses(call.plot_type, call.options).text

DeclaresArray(cols, rows) ==
    \E source_type \in {Array} \cup
           {SizedArray(d[1][1], d[1][2], d[1][3], d[1][4]) : d \in Dimensions \ {None}} :
        LastElem.args = ArrayDirective(cols, rows)
                        \o SourceTail(rows, cols, source_type, call.is_3d)
                        \o StyleClauses(call.plot_type, call.options).text

\* C2 (the claim as stated): the size an element's directive declares is the
\* number of doubles in its payload: record=R and R*2 (R*3) doubles for
\* plot2 (plot3), R the length of the shortest input; array=(cols,rows) and
\* rows*cols doubles for plot_matrix, whatever the length of the input.
C2_DeclaredSizeIsPayloadSize ==
    /\ call.op = "plot2" =>
          LET R == Min(Len(call.x1), Len(call.x2))
          IN  DeclaresRecord(R, 2) /\ Len(LastElem.data) = R * 2
    /\ call.op = "plot3" =>
          LET R == Min(Len(call.x1), Min(Len(call.x2), Len(call.x3)))
          IN  DeclaresRecord(R, 3) /\ Len(LastElem.data) = R * 3
    /\ call.op = "plot_matrix" =>
          /\ DeclaresArray(call.num_cols, call.num_rows)
          /\ Len(LastElem.data) = call.num_rows * call.num_cols

\* C2, the part that holds of the code: plot2 and plot3 always, plot_matrix
\* when the input is no longer than the matrix
C2_DeclaredSizeUnlessLongMatrix ==
    (call.op = "plot_matrix" => Len(call.mat) <= call.num_rows * call.num_cols)
        => C2_DeclaredSizeIsPayloadSize

----------------------------------------------------------------------------
(* The pure functions: Init draws the arguments, the action applies the    *)
(* function and records what it returned or wrote.                         *)

MaxOpts == 3    \* longest option list

RECURSIVE ListsUpTo(_, _)
ListsUpTo(S, n) ==
    IF n = 0 THEN {<<>>}
    ELSE LET shorter == ListsUpTo(S, n - 1)
         IN  shorter \cup {Append(l, o) : l \in shorter, o \in S}

StyleOptions ==
    {Color("red"), Color("blue"), LineWidth(F(2)), LineWidth(Rat(1, 2)),
     LineStyle("Dash"), LineStyle("DotDash"), Caption("a")}

Chars == {".", "+", "x", "*", "s", "S", "o", "O", "t", "T", "d", "D", "r", "R",
          "Q", "X", "a", "0", " ", "-", "p"}

Defaults == {None, Some("black")}

InitPure ==
    /\ FreshData
    /\ focus = "x"
    /\ res = [pending |-> TRUE]
    /\ \/ \E c \in Chars : call = [op |-> "char_to_symbol", c |-> c]
       \/ \E options \in ListsUpTo(StyleOptions, MaxOpts) :
             call = [op |-> "write_line_options", options |-> options]
       \/ \E options \in ListsUpTo(StyleOptions, MaxOpts), default \in Defaults :
             call = [op |-> "write_color_options", options |-> options,
                     default |-> default]

CallCharToSymbol ==
    /\ res.pending /\ call.op = "char_to_symbol"
    /\ res' = [pending |-> FALSE, ret |-> char_to_symbol(call.c)]
    /\ UNCHANGED <<aggregator, panicked, call, last_pos, ncmds, focus>>

CallWriteLineOptions ==
    /\ res.pending /\ call.op = "write_line_options"
    /\ res' = [pending |-> FALSE, text |-> write_line_options(call.options)]
    /\ UNCHANGED <<aggregator, panicked, call, last_pos, ncmds, focus>>

CallWriteColorOptions ==
    /\ res.pending /\ call.op = "write_color_options"
    /\ res' = [pending |-> FALSE,
               text |-> write_color_options(call.options, call.default)]
    /\ UNCHANGED <<aggregator, panicked, call, last_pos, ncmds, focus>>

NextPure == CallCharToSymbol \/ CallWriteLineOptions \/ CallWriteColorOptions

SpecPure == InitPure /\ [][NextPure]_vars

\* the positions of the entries of a kind in an option list
Positions(options, kind) == {i \in 1..Len(options) : options[i].kind = kind}

\* the earliest entry of a kind (there being one)
Earliest(options, kind) ==
    options[CHOOSE i \in Positions(options, kind) :
                \A j \in Positions(options, kind) : i <= j]

\* C4: option resolution takes the payload of the earliest entry of the
\* kind, whatever follows it and whatever entries of other kinds surround
\* it, and the default when the list has no entry of the kind: line width
\* 1, line style 1, the caller's default colour or no colour clause.
C4_FirstMatchWins ==
    /\ (call.op = "write_line_options" /\ ~res.pending) =>
          res.text =
            " lw "
            \o (IF Positions(call.options, "LineWidth") = {} THEN "1"
                ELSE Fmt12e(Earliest(call.options, "LineWidth").f))
            \o " lt "
            \o (IF Positions(call.options, "LineStyle") = {} THEN "1"
                ELSE ToString(DashType_to_int(Earliest(call.options, "LineStyle").s)))
    /\ (call.op = "write_color_options" /\ ~res.pending) =>
          res.text =
            IF Positions(call.options, "Color") # {}
            THEN " lc rgb \"" \o Earliest(call.options, "Color").s \o "\""
            ELSE IF call.default # None
            THEN " lc rgb \"" \o call.default[1] \o "\""
            ELSE ""

\* C4 witness: [Color(red), Color(blue)] with a default colour gives red
C4_Witness ==
    /\ call.op = "write_color_options" /\ ~res.pending
    /\ call.options = <<Color("red"), Color("blue")>>
    /\ call.default = Some("black")
    /\ res.text = " lc rgb \"red\""

SymbolTable == <<".", "+", "x", "*", "s", "S", "o", "O", "t", "T", "d", "D", "r", "R">>

\* C10: char_to_symbol maps . + x * s S o O t T d D r R to 0..13 in that
\* order, no two characters to the same index, and panics on every other
\* character.
C10_SymbolTable ==
    /\ Len(SymbolTable) = 14
    /\ \A i, j \in 1..14 :
          i # j => char_to_symbol(SymbolTable[i]) # char_to_symbol(SymbolTable[j])
    /\ (call.op = "char_to_symbol" /\ ~res.pending) =>
          /\ \A i \in 1..14 : call.c = SymbolTable[i] => res.ret = Returned(i - 1)
          /\ (\A i \in 1..14 : call.c # SymbolTable[i]) => res.ret.panic

\* C10 witness: 'o' has given 6
C10_Witness ==
    /\ call.op = "char_to_symbol" /\ ~res.pending
    /\ call.c = "o"
    /\ res.ret = Returned(6)

----------------------------------------------------------------------------
(* One axis of the aggregator: the tick, range and log setters of the      *)
(* public interface (set_x_ticks, set_y_ticks, set_cb_ticks, ...) applied  *)
(* to the axis `focus` names.                                              *)

FocusAxis ==
    CASE focus = "x" -> x_axis
      [] focus = "y" -> y_axis
      [] focus = "cb" -> cb_axis

SetFocusAxis(a) ==
    /\ x_axis' = IF focus = "x" THEN a ELSE x_axis
    /\ y_axis' = IF focus = "y" THEN a ELSE y_axis
    /\ cb_axis' = IF focus = "cb" THEN a ELSE cb_axis

set_ticks(tick_placement, tick_options, label_options) ==
    /\ ~panicked
    /\ LET r == AxisData_set_ticks(FocusAxis, tick_placement, tick_options,
                                   label_options)
       IN  /\ SetFocusAxis(r.self)
           /\ panicked' = r.panic
           /\ res' = [panic |-> r.panic]
    /\ call' = [op |-> "set_ticks", tick_placement |-> tick_placement,
                tick_options |-> tick_options, label_options |-> label_options]
    /\ UNCHANGED <<commands, elems, grid_rows, grid_cols, grid_pos, last_pos,
                   ncmds, focus>>

set_ticks_custom(ticks, tick_options, label_options) ==
    /\ ~panicked
    /\ SetFocusAxis(AxisData_set_ticks_custom(FocusAxis, ticks, tick_options,
                                              label_options))
    /\ call' = [op |-> "set_ticks_custom", ticks |-> ticks,
                tick_options |-> tick_options, label_options |-> label_options]
    /\ res' = [panic |-> FALSE]
    /\ UNCHANGED <<commands, elems, grid_rows, grid_cols, grid_pos, panicked,
                   last_pos, ncmds, focus>>

set_range(min, max) ==
    /\ ~panicked
    /\ SetFocusAxis(AxisData_set_range(FocusAxis, min, max))
    /\ call' = [op |-> "set_range", min |-> min, max |-> max]
    /\ res' = [panic |-> FALSE]
    /\ UNCHANGED <<commands, elems, grid_rows, grid_cols, grid_pos, panicked,
                   last_pos, ncmds, focus>>

set_log(base) ==
    /\ ~panicked
    /\ SetFocusAxis(AxisData_set_log(FocusAxis, base))
    /\ call' = [op |-> "set_log", base |-> base]
    /\ res' = [panic |-> FALSE]
    /\ UNCHANGED <<commands, elems, grid_rows, grid_cols, grid_pos, panicked,
                   last_pos, ncmds, focus>>

Increments == {Auto, Fix(F(-1)), Fix(F(0)), Fix(F(2)), Fix(NaN)}

MinorCounts == {U32(0, 0), U32(0, 3), U32(Half - 1, Half - 1)}

TickPlacements == {None} \cup {Some(<<i, m>>) : i \in Increments, m \in MinorCounts}

TickOptionLists ==
    { <<>>,
      <<Mirror(FALSE), MinorScale(F(1)), Mirror(TRUE), OnAxis(TRUE), Inward(FALSE),
        MajorScale(F(2))>> }

LabelOptionLists ==
    { <<>>,
      <<TextColor("red"), Rotate(F(90)), MarkerSymbol("Q"), TextAlign("AlignLeft"),
        Font("Arial", F(12)), TextOffset(F(1), F(-1)), MarkerSize(F(2))>> }

TickLists ==
    { <<>>,
      <<Minor(F(1))>>,
      <<Major(F(0), Fix("a")), Minor(Rat(1, 2)), Major(F(1), Auto)>> }

Mins == {Auto, Fix(F(0))}
Maxs == {Auto, Fix(F(10))}

LogBases == {None, Some(F(10))}

SetTicks ==
    \E tick_placement \in TickPlacements, tick_options \in TickOptionLists,
       label_options \in LabelOptionLists :
       set_ticks(tick_placement, tick_options, label_options)

SetTicksCustom ==
    \E ticks \in TickLists, tick_options \in TickOptionLists,
       label_options \in LabelOptionLists :
       set_ticks_custom(ticks, tick_options, label_options)

SetRange == \E min \in Mins, max \in Maxs : set_range(min, max)

SetLog == \E base \in LogBases : set_log(base)

InitAxis == Fresh /\ focus \in {"x", "y", "cb"}

NextAxis == SetTicks \/ SetTicksCustom \/ SetRange \/ SetLog

SpecAxis == InitAxis /\ [][NextAxis]_vars

TickName == CASE focus = "x" -> "xtics" [] focus = "y" -> "ytics" [] focus = "cb" -> "cbtics"

\* C5: set_ticks panics exactly when the placement is Some((Fix(v), _)) with
\* v <= 0; a call with Fix(v) that returns leaves "set <axis>tics" with the
\* increment v, the tick options and a newline in the tick buffer.
C5_SetTicksFailsIffIncrementNotPositive ==
    call.op = "set_ticks" =>
        LET p      == call.tick_placement
            fixed  == p # None /\ p[1][1] # Auto
            v      == p[1][1][1]
            nonpos == fixed /\ v[2] > 0 /\ v[1] <= 0
        IN  /\ panicked <=> nonpos
            /\ (fixed /\ ~nonpos) =>
                  FocusAxis.ticks_buf =
                      "set " \o TickName \o "  " \o Fmt12e(v)
                      \o set_ticks_options(call.tick_options, call.label_options)
                      \o "\n"

\* C5 witness: set_x_ticks(Some((Fix(2.0), 3)), &[], &[]) has returned
C5_Witness ==
    /\ call.op = "set_ticks" /\ ~panicked /\ focus = "x"
    /\ call.tick_placement = Some(<<Fix(F(2)), U32(0, 3)>>)
    /\ call.tick_options = <<>> /\ call.label_options = <<>>
    /\ x_axis.ticks_buf =
         "set xtics  2.000000000000e0 scale 5.000000000000e-1,5.000000000000e-1\n"
    /\ x_axis.mticks = 3

\* the number a u32 stands for is the integer n
IsU32(n, m) == n >= 0 /\ n \div Half = m[1] /\ n % Half = m[2]

\* what the tick setter of the step alone leaves on a freshly created axis
TickSetterAlone(c) ==
    IF c.op = "set_ticks"
    THEN AxisData_set_ticks(AxisData_new(focus), c.tick_placement, c.tick_options,
                            c.label_options).self
    ELSE AxisData_set_ticks_custom(AxisData_new(focus), c.ticks, c.tick_options,
                                   c.label_options)

\* the steps of C9 but for the minor-tick count a set_ticks call leaves
TickStateStep(minor_count_ok) ==
    /\ (call'.op \in {"set_ticks", "set_ticks_custom"} /\ ~panicked') =>
          /\ FocusAxis'.ticks_buf = TickSetterAlone(call').ticks_buf
          /\ IF call'.op = "set_ticks" /\ call'.tick_placement # None
             THEN minor_count_ok
             ELSE FocusAxis'.mticks = 0
    /\ call'.op \in {"set_ticks", "set_ticks_custom"} =>
          /\ FocusAxis'.min = FocusAxis.min
          /\ FocusAxis'.max = FocusAxis.max
          /\ FocusAxis'.log_base = FocusAxis.log_base
    /\ call'.op \in {"set_range", "set_log"} =>
          /\ FocusAxis'.ticks_buf = FocusAxis.ticks_buf
          /\ FocusAxis'.mticks = FocusAxis.mticks

\* C9 (the claim as stated): after every tick setter the tick buffer is what
\* that call alone leaves on a fresh axis and the minor-tick count is m after
\* set_ticks(Some((_, m))), 0 after set_ticks(None) and set_ticks_custom;
\* set_range and set_log change neither; the tick setters change none of
\* min, max and log base.
C9_TickStateIsLastSetters ==
    [][TickStateStep(IsU32(FocusAxis'.mticks, call'.tick_placement[1][2]))]_vars

\* C9, the part that holds of the code: the count is `m as i32`
C9_TickStateWithCast ==
    [][TickStateStep(FocusAxis'.mticks = U32AsI32(call'.tick_placement[1][2]))]_vars

\* ---------------------------------------------------------------------
\* Positioning: set_pos_grid, set_pos, set_size, set_aspect_ratio

\* write_command replacing the buffer by the line
write_command_Truncates(text) ==
    /\ commands' = text \o "\n"
    /\ ncmds' = ncmds + 1

\* appends one line to the commands buffer
write_command(text) ==
    /\ commands' = commands \o text \o "\n"
    /\ ncmds' = ncmds + 1

\* set_pos_grid(nrow, ncol, pos): the three asserts, then the three fields.
\* nrow * ncol is a u32 product: with overflow checks the product itself
\* panics when it does not fit, without them it wraps.
set_pos_grid(nrow, ncol, pos, overflow_checks) ==
    /\ ~panicked
    /\ LET product == U32Mul(nrow, ncol)
           fails == \/ U32IsZero(nrow)
                    \/ U32IsZero(ncol)
                    \/ (overflow_checks /\ product.overflow)
                    \/ ~U32Lt(pos, product.value)
       IN  /\ panicked' = fails
           /\ res' = [panic |-> fails]
           /\ grid_rows' = IF fails THEN grid_rows ELSE nrow
           /\ grid_cols' = IF fails THEN grid_cols ELSE ncol
           /\ grid_pos' = IF fails THEN grid_pos ELSE Some(pos)
           /\ last_pos' = IF fails THEN last_pos ELSE "set_pos_grid"
    /\ call' = [op |-> "set_pos_grid", nrow |-> nrow, ncol |-> ncol, pos |-> pos]
    /\ UNCHANGED <<commands, elems, x_axis, y_axis, cb_axis, ncmds, focus>>

\* set_pos without the assignment to grid_pos
set_pos_KeepsGrid(x, y) ==
    /\ ~panicked
    /\ write_command("set origin " \o Fmt12e(x) \o "," \o Fmt12e(y))
    /\ last_pos' = "set_pos"
    /\ call' = [op |-> "set_pos", x |-> x, y |-> y]
    /\ res' = [panic |-> FALSE]
    /\ UNCHANGED <<grid_pos, elems, grid_rows, grid_cols, x_axis, y_axis, cb_axis,
                   panicked, focus>>

set_pos(x, y) ==
    /\ ~panicked
    /\ grid_pos' = None
    /\ write_command("set origin " \o Fmt12e(x) \o "," \o Fmt12e(y))
    /\ last_pos' = "set_pos"
    /\ call' = [op |-> "set_pos", x |-> x, y |-> y]
    /\ res' = [panic |-> FALSE]
    /\ UNCHANGED <<elems, grid_rows, grid_cols, x_axis, y_axis, cb_axis,
                   panicked, focus>>

set_size(w, h) ==
    /\ ~panicked
    /\ write_command("set size " \o Fmt12e(w) \o "," \o Fmt12e(h))
    /\ call' = [op |-> "set_size", w |-> w, h |-> h]
    /\ res' = [panic |-> FALSE]
    /\ UNCHANGED <<elems, grid_rows, grid_cols, grid_pos, x_axis, y_axis, cb_axis,
                   panicked, last_pos, focus>>

set_aspect_ratio(ratio) ==
    /\ ~panicked
    /\ write_command(IF ratio = Auto THEN "set size noratio"
                     ELSE "set size ratio " \o Fmt12e(ratio[1]))
    /\ call' = [op |-> "set_aspect_ratio", ratio |-> ratio]
    /\ res' = [panic |-> FALSE]
    /\ UNCHANGED <<elems, grid_rows, grid_cols, grid_pos, x_axis, y_axis, cb_axis,
                   panicked, last_pos, focus>>

\* lines written to the commands buffer in one run
MaxCmds == 2

GridCounts == {U32(0, 0), U32(0, 1), U32(0, 2), U32(1, 0)}
GridCells == {U32(0, 0), U32(0, 1), U32(0, 3), U32(1, 0)}
Coordinates == {F(0), Rat(1, 2)}
Sizes == {F(1)}
Ratios == {Auto, Fix(F(2))}

SetPosGrid ==
    \E nrow \in GridCounts, ncol \in GridCounts, pos \in GridCells,
       overflow_checks \in BOOLEAN :
       set_pos_grid(nrow, ncol, pos, overflow_checks)

SetPos == ncmds < MaxCmds /\ \E x \in Coordinates, y \in Coordinates : set_pos(x, y)

SetSize == ncmds < MaxCmds /\ \E w \in Sizes, h \in Sizes : set_size(w, h)

SetAspectRatio == ncmds < MaxCmds /\ \E ratio \in Ratios : set_aspect_ratio(ratio)

Next == SetPosGrid \/ SetPos \/ SetSize \/ SetAspectRatio

Spec == Init /\ [][Next]_vars

\* C6 (the claim as stated): grid_pos is None exactly when the most recent
\* positioning call was set_pos.
C6_GridPosNoneIffSetPosLast == (grid_pos = None) <=> (last_pos = "set_pos")

\* C6: grid_pos is None exactly when the most recent positioning call that
\* returned was set_pos, or when no positioning call has returned yet.
C6_GridPosNoneIffSetPosLastOrNone ==
    (grid_pos = None) <=> (last_pos \in {"none", "set_pos"})

\* C6 witness: set_pos has cleared the cell a set_pos_grid call had set
C6_Witness ==
    /\ last_pos = "set_pos" /\ call.op = "set_pos"
    /\ grid_pos = None
    /\ grid_rows = U32(0, 2) /\ grid_cols = U32(0, 2)

\* pos < nrow * ncol, the product taken in the integers
InGrid(pos, nrow, ncol) ==
    LET product == U32Mul(nrow, ncol)
    IN  product.overflow \/ U32Lt(pos, product.value)

\* the step of C7 given the condition under which the call is to succeed
SetPosGridStep(ok) ==
    call'.op = "set_pos_grid" =>
        /\ ~panicked' <=> ok
        /\ ok => /\ grid_rows' = call'.nrow
                 /\ grid_cols' = call'.ncol
                 /\ grid_pos' = Some(call'.pos)
        /\ ~ok => UNCHANGED <<grid_rows, grid_cols, grid_pos>>

\* C7 (the claim as stated): set_pos_grid returns exactly when 0 < nrow,
\* 0 < ncol and pos < nrow * ncol, and then the three grid fields hold the
\* arguments; a failing call changes none of them.
C7_SetPosGridSucceedsIffInGrid ==
    [][SetPosGridStep(/\ ~U32IsZero(call'.nrow)
                      /\ ~U32IsZero(call'.ncol)
                      /\ InGrid(call'.pos, call'.nrow, call'.ncol))]_vars

\* C7, the part that holds of the code: the same when nrow * ncol fits a u32
C7_SetPosGridWithinU32 ==
    [][(call'.op = "set_pos_grid" /\ ~U32Mul(call'.nrow, call'.ncol).overflow) =>
          SetPosGridStep(/\ ~U32IsZero(call'.nrow)
                         /\ ~U32IsZero(call'.ncol)
                         /\ InGrid(call'.pos, call'.nrow, call'.ncol))]_vars

\* ---------------------------------------------------------------------
\* Custom palette

\* assert!(x >= old_x) with > in place of >=
GrayLevelOk_Strict(x, old_x) == FGt(x, old_x)

\* assert!(x >= old_x, "The gray levels must be non-decreasing!")
GrayLevelOk(x, old_x) == FGe(x, old_x)

\* the loop over the generator from its i-th point on: the text written so
\* far, whether the assert failed, and the number of points pulled
RECURSIVE PaletteLoop(_, _, _, _, _)
PaletteLoop(palette_generator, i, first, old_x, c) ==
    IF i > Len(palette_generator)
    THEN [panic |-> FALSE, first |-> first, text |-> c,
          consumed |-> Len(palette_generator)]
    ELSE
      LET x  == palette_generator[i][1]
          r  == palette_generator[i][2]
          g  == palette_generator[i][3]
          b  == palette_generator[i][4]
          c1 == IF first THEN c ELSE c \o ","
          old_x1 == IF first THEN x ELSE old_x
      IN  IF ~GrayLevelOk(x, old_x1)
          THEN [panic |-> TRUE, first |-> FALSE, text |-> c1, consumed |-> i]
          ELSE PaletteLoop(palette_generator, i + 1, FALSE, x,
                           c1 \o Fmt12e(x) \o " " \o Fmt12e(r) \o " "
                              \o Fmt12e(g) \o " " \o Fmt12e(b))

set_custom_palette(palette_generator) ==
    /\ ~panicked
    /\ LET r == PaletteLoop(palette_generator, 1, TRUE, F(0), "set palette defined (")
           fails == r.panic \/ r.first
       IN  /\ commands' = commands \o (IF fails THEN r.text ELSE r.text \o ")\n")
           /\ panicked' = fails
           /\ res' = [panic |-> fails, consumed |-> r.consumed]
    /\ ncmds' = ncmds + 1
    /\ call' = [op |-> "set_custom_palette", palette_generator |-> palette_generator]
    /\ UNCHANGED <<elems, grid_rows, grid_cols, grid_pos, x_axis, y_axis, cb_axis,
                   last_pos, focus>>

\* points of one generator, calls in one run
MaxPoints == 3
MaxPalettes == 1

\* 0.3f32 is 5033165 / 2^24
GrayLevels == {F(0), <<5033165, 16777216>>, Rat(1, 2), F(1), NaN}

ControlPoints == {<<x, F(0), Rat(1, 2), F(1)>> : x \in GrayLevels}

SetCustomPalette ==
    /\ ncmds < MaxPalettes
    /\ \E palette_generator \in ListsUpTo(ControlPoints, MaxPoints) :
          set_custom_palette(palette_generator)

NextPalette == SetCustomPalette

SpecPalette == Init /\ [][NextPalette]_vars

\* the gray levels of a sequence of control points
Grays(points) == [i \in 1..Len(points) |-> points[i][1]]

\* a is lower than b, both finite
Lower(a, b) == ~IsNaN(a) /\ ~IsNaN(b) /\ a # b /\ a[1] * b[2] < b[1] * a[2]

\* the points whose gray level is lower than their predecessor's
Decreases(g) == {i \in 2..Len(g) : Lower(g[i], g[i - 1])}

\* the points whose gray level is NaN or lower than their predecessor's
Rejected(g) == {i \in 1..Len(g) : IsNaN(g[i])} \cup Decreases(g)

First(S) == CHOOSE i \in S : \A j \in S : i <= j

\* a call succeeds exactly when the generator is non-empty and has none of
\* the points `bad`, and fails at the first of them without pulling more
PaletteOutcome(g, bad) ==
    /\ ~panicked <=> (g # <<>> /\ bad = {})
    /\ bad # {} => res.consumed = First(bad)

\* C8 (the claim as stated): set_custom_palette returns exactly when the
\* sequence is non-empty and no gray level is lower than its predecessor's;
\* with a decrease it fails at the first such point and pulls no later one.
C8_PaletteFailsAtFirstDecrease ==
    call.op = "set_custom_palette" =>
        PaletteOutcome(Grays(call.palette_generator),
                       Decreases(Grays(call.palette_generator)))

\* C8: set_custom_palette returns exactly when the sequence is non-empty, no
\* gray level is NaN and none is lower than its predecessor's; otherwise it
\* fails at the first point that is NaN or lower than its predecessor and
\* pulls no later one; an empty sequence fails.
C8_PaletteFailsAtFirstDecreaseOrNaN ==
    call.op = "set_custom_palette" =>
        PaletteOutcome(Grays(call.palette_generator),
                       Rejected(Grays(call.palette_generator)))

\* C8 witness: gray levels [0.0, 0.5, 0.3] fail at the third point
C8_Witness ==
    /\ call.op = "set_custom_palette" /\ panicked
    /\ Grays(call.palette_generator) = <<F(0), Rat(1, 2), <<5033165, 16777216>>>>
    /\ res.consumed = 3
    /\ commands = "set palette defined ("
         \o "0.000000000000e0 0.000000000000e0 5.000000000000e-1 1.000000000000e0,"
         \o "5.000000000000e-1 0.000000000000e0 5.000000000000e-1 1.000000000000e0,"

\* ---------------------------------------------------------------------
\* Sized arrays: origin and spacing

\* largest num_rows and num_cols of a sized array
MaxCount == 3

Corners == {F(-1), F(0), Rat(1, 2), F(2)}

PlotSizedMatrix ==
    /\ elems = <<>>
    /\ \E plot_type \in {"Image", "Pm3D"}, is_3d \in BOOLEAN,
          num_rows \in 0..MaxCount, num_cols \in 0..MaxCount,
          x1 \in Corners, y1 \in Corners, x2 \in Corners, y2 \in Corners :
          plot_matrix(plot_type, is_3d, Data(0, 1), num_rows, num_cols,
                      Some(<<x1, y1, x2, y2>>), <<>>)

NextBox == PlotSizedMatrix

SpecBox == Init /\ [][NextBox]_vars

\* the smaller and the larger of two finite values
MinF(a, b) == IF Lower(b, a) THEN b ELSE a
MaxF(a, b) == IF Lower(b, a) THEN a ELSE b

\* (hi - lo) / n for n >= 1, as a fraction in lowest terms
Step(lo, hi, n) == Rat(hi[1] * lo[2] - lo[1] * hi[2], hi[2] * lo[2] * n)

\* the spacing along an axis with `count` samples between lo and hi
Spacing(lo, hi, count) ==
    IF count > 1 THEN Fmt12e(Step(lo, hi, count - 1)) ELSE "1"

\* C11: the fragment of a sized-array element has, after the array
\* directive, origin=(min x, min y[,0]) with ",0" exactly when is_3d, then
\* dx = (max x - min x) / (cols - 1) for cols > 1 and the literal 1
\* otherwise, then dy likewise from y and rows; every division is by a
\* count - 1 >= 1.
C11_SizedArrayOriginAndSpacing ==
    (call.op = "plot_matrix" /\ call.dimensions # None) =>
        LET d  == call.dimensions[1]
            x1 == MinF(d[1], d[3])
            x2 == MaxF(d[1], d[3])
            y1 == MinF(d[2], d[4])
            y2 == MaxF(d[2], d[4])
        IN  LastElem.args =
                ArrayDirective(call.num_cols, call.num_rows)
                \o "origin=(" \o Fmt12e(x1) \o "," \o Fmt12e(y1)
                \o (IF call.is_3d THEN ",0" ELSE "") \o ") "
                \o "dx=" \o Spacing(x1, x2, call.num_cols) \o " "
                \o "dy=" \o Spacing(y1, y2, call.num_rows) \o " "
                \o StyleClauses(call.plot_type, call.options).text

\* C11 witness: a 3-d 1 x 3 matrix with both corner pairs reversed
C11_Witness ==
    /\ call.op = "plot_matrix" /\ call.is_3d /\ call.plot_type = "Pm3D"
    /\ call.num_rows = 1 /\ call.num_cols = 3
    /\ call.dimensions = Some(<<F(2), F(2), F(-1), F(0)>>)
    /\ LastElem.args = " \"-\" binary endian=little array=(3,1) format=\"%float64\" "
         \o "origin=(-1.000000000000e0,0.000000000000e0,0) "
         \o "dx=1.500000000000e0 dy=1  with pm3d t \"\""

\* ---------------------------------------------------------------------
\* Labels, titles and tick labels

label_str(label_type) ==
    CASE label_type.kind = "XLabel" -> "xlabel"
      [] label_type.kind = "YLabel" -> "ylabel"
      [] label_type.kind = "ZLabel" -> "zlabel"
      [] label_type.kind = "CBLabel" -> "cblabe"
      [] label_type.kind = "TitleLabel" -> "title"
      [] label_type.kind = "Label" -> "label"

\* set_label_common: "set ", the label keyword (a panic for AxesTicks), the
\* quoted text, the options, a newline
set_label_common(label_type, text, options) ==
    /\ ~panicked
    /\ IF label_type.kind = "AxesTicks"
       THEN /\ commands' = commands \o "set "
            /\ panicked' = TRUE
            /\ res' = [panic |-> TRUE]
       ELSE LET r == write_out_label_options(label_type, options)
            IN  /\ commands' = commands \o "set " \o label_str(label_type)
                                \o " \"" \o text \o "\"" \o r.text
                                \o (IF r.panic THEN "" ELSE "\n")
                /\ panicked' = r.panic
                /\ res' = [panic |-> r.panic]
    /\ ncmds' = ncmds + 1
    /\ call' = [op |-> "set_label_common", label_type |-> label_type,
                text |-> text, options |-> options]
    /\ UNCHANGED <<elems, grid_rows, grid_cols, grid_pos, x_axis, y_axis, cb_axis,
                   last_pos, focus>>

\* longest label option list
MaxLabelOpts == 3

LabelTypes ==
    {LabelType("XLabel"), LabelType("YLabel"), LabelType("ZLabel"),
     LabelType("CBLabel"), LabelType("TitleLabel"), Label("1", "graph 0.5")}

LabelOptions ==
    {TextOffset(F(1), F(-1)), TextColor("red"), Font("Arial", F(12)), Rotate(F(90)),
     MarkerSymbol("o"), MarkerSymbol("Q"), MarkerColor("blue"), MarkerSize(F(2)),
     TextAlign("AlignLeft"), TextAlign("AlignCenter")}

Texts == {"", "a"}

\* set_x_label, set_y_label, set_cb_label, set_title, label (and the z
\* label) as the first call on a fresh aggregator
SetLabel ==
    /\ call.op = "new"
    /\ \E label_type \in LabelTypes, text \in Texts,
          options \in ListsUpTo(LabelOptions, MaxLabelOpts) :
          set_label_common(label_type, text, options)

\* set_x_ticks / set_y_ticks / set_cb_ticks with automatic ticks, over the
\* label option lists, as the first call on a fresh aggregator
SetTickLabels ==
    /\ call.op = "new"
    /\ \E label_options \in ListsUpTo(LabelOptions, MaxLabelOpts) :
          set_ticks(Some(<<Auto, U32(0, 0)>>), <<>>, label_options)

NextLabel == SetLabel \/ SetTickLabels

SpecLabel == InitAxis /\ [][NextLabel]_vars

\* the offset, colour, font and rotation clauses of an option list
TextClauses(options) ==
    (IF Positions(options, "TextOffset") = {} THEN ""
     ELSE " offset character " \o Fmt12e(Earliest(options, "TextOffset").f)
          \o "," \o Fmt12e(Earliest(options, "TextOffset").f2))
    \o (IF Positions(options, "TextColor") = {} THEN ""
        ELSE " tc rgb \"" \o Earliest(options, "TextColor").s \o "\"")
    \o (IF Positions(options, "Font") = {} THEN ""
        ELSE " font \"" \o Earliest(options, "Font").s \o ","
             \o FDisplay(Earliest(options, "Font").f) \o "\"")
    \o (IF Positions(options, "Rotate") = {} THEN ""
        ELSE " rotate by " \o Fmt12e(Earliest(options, "Rotate").f))

\* the index of a character of the symbol table
SymbolIndex(c) == (CHOOSE i \in 1..Len(SymbolTable) : SymbolTable[i] = c) - 1

\* the marker clauses: nothing without a marker symbol
MarkerClauses(options) ==
    IF Positions(options, "MarkerSymbol") = {} THEN ""
    ELSE " point pt "
         \o ToString(SymbolIndex(Earliest(options, "MarkerSymbol").s))
         \o (IF Positions(options, "MarkerColor") = {} THEN ""
             ELSE " lc rgb \"" \o Earliest(options, "MarkerColor").s \o "\"")
         \o (IF Positions(options, "MarkerSize") = {} THEN ""
             ELSE " ps " \o Fmt12e(Earliest(options, "MarkerSize").f))

AlignClause(options) ==
    IF Positions(options, "TextAlign") = {} THEN ""
    ELSE CASE Earliest(options, "TextAlign").s = "AlignLeft" -> " left"
           [] Earliest(options, "TextAlign").s = "AlignRight" -> " right"
           [] OTHER -> " center"

\* the first marker symbol of the list, if any, is one of the symbol table
MarkerValid(options) ==
    Positions(options, "MarkerSymbol") # {} =>
        \E i \in 1..Len(SymbolTable) :
            SymbolTable[i] = Earliest(options, "MarkerSymbol").s

MaxI32 == U32AsI32(U32(Half \div 2 - 1, Half - 1))
MinI32 == U32AsI32(U32(Half \div 2, 0))

\* the log-scale toggle and the newline behind it
LogToggle(self) ==
    (IF self.log_base # None
     THEN "set logscale " \o to_axis_str(self.axis) \o " " \o Fmt12e(self.log_base[1])
     ELSE "unset logscale " \o to_axis_str(self.axis))
    \o "\n"

\* the range directive and the tick buffer
RangeAndTicks(self) ==
    "\n" \o "set " \o to_range_str(self.axis) \o " ["
    \o (IF self.min = Auto THEN "*" ELSE Fmt12e(self.min[1]))
    \o ":"
    \o (IF self.max = Auto THEN "*" ELSE Fmt12e(self.max[1]))
    \o "]\n"
    \o self.ticks_buf

\* write_out_commands with the numeric count written on a log axis too
AxisData_write_out_commands_CountWhenLog(self, overflow_checks) ==
    IF self.mticks > 0
    THEN IF self.mticks = MaxI32 /\ overflow_checks
         THEN WroteThenPanicked(LogToggle(self) \o "set m" \o to_tick_str(self.axis) \o " ")
         ELSE Wrote(LogToggle(self) \o "set m" \o to_tick_str(self.axis) \o " "
                    \o ToString(IF self.mticks = MaxI32 THEN MinI32
                                ELSE self.mticks + 1)
                    \o "\n" \o RangeAndTicks(self))
    ELSE Wrote(LogToggle(self) \o "unset m" \o to_tick_str(self.axis) \o "\n"
               \o RangeAndTicks(self))

\* AxisData::write_out_commands: the text written.  `self.mticks as i32 + 1`
\* is an i32 sum: at the largest i32 it panics with overflow checks and
\* wraps without them.
AxisData_write_out_commands(self, overflow_checks) ==
    IF self.mticks > 0
    THEN IF self.log_base # None
         THEN Wrote(LogToggle(self) \o "set m" \o to_tick_str(self.axis) \o " "
                    \o "default\n" \o RangeAndTicks(self))
         ELSE IF self.mticks = MaxI32 /\ overflow_checks
         THEN WroteThenPanicked(LogToggle(self) \o "set m" \o to_tick_str(self.axis) \o " ")
         ELSE Wrote(LogToggle(self) \o "set m" \o to_tick_str(self.axis) \o " "
                    \o ToString(IF self.mticks = MaxI32 THEN MinI32
                                ELSE self.mticks + 1)
                    \o "\n" \o RangeAndTicks(self))
    ELSE Wrote(LogToggle(self) \o "unset m" \o to_tick_str(self.axis) \o "\n"
               \o RangeAndTicks(self))

\* AxesCommonData::write_out_commands to an empty writer: the command
\* buffer, then the x, y and cb axes, up to the first panic
write_out_commands(overflow_checks) ==
    /\ ~panicked
    /\ LET x  == AxisData_write_out_commands(x_axis, overflow_checks)
           y  == AxisData_write_out_commands(y_axis, overflow_checks)
           cb == AxisData_write_out_commands(cb_axis, overflow_checks)
           out == commands \o x.text
                  \o (IF x.panic THEN "" ELSE y.text)
                  \o (IF x.panic \/ y.panic THEN "" ELSE cb.text)
           panic == x.panic \/ y.panic \/ cb.panic
       IN  /\ res' = [panic |-> panic, out |-> out]
           /\ panicked' = panic
    /\ call' = [op |-> "write_out_commands", overflow_checks |-> overflow_checks]
    /\ UNCHANGED <<aggregator, last_pos, ncmds, focus>>

WriteOutCommands == \E overflow_checks \in BOOLEAN : write_out_commands(overflow_checks)

\* minor counts 3, 2^31 - 1 and 2^32 - 1, or no ticks
OutPlacements ==
    {None, Some(<<Auto, U32(0, 3)>>), Some(<<Auto, U32(Half \div 2 - 1, Half - 1)>>),
     Some(<<Auto, U32(Half - 1, Half - 1)>>)}

OutRanges == {<<Auto, Auto>>, <<Fix(F(0)), Auto>>, <<Auto, Fix(F(10))>>}

\* the states the setters leave an axis in
AxisStates(axis) ==
    {AxisData_set_log(
        AxisData_set_range(
            AxisData_set_ticks(AxisData_new(axis), p, <<>>, <<>>).self, r[1], r[2]),
        b) : p \in OutPlacements, r \in OutRanges, b \in LogBases}

\* an aggregator after setter calls on its three axes and at most one
\* command
InitOut ==
    /\ commands \in {"", "set size noratio\n"}
    /\ ncmds = (IF commands = "" THEN 0 ELSE 1)
    /\ elems = <<>>
    /\ grid_rows = U32(0, 0) /\ grid_cols = U32(0, 0) /\ grid_pos = None
    /\ x_axis \in AxisStates("x")
    /\ y_axis \in AxisStates("y")
    /\ cb_axis \in AxisStates("cb")
    /\ panicked = FALSE
    /\ last_pos = "none"
    /\ focus = "x"
    /\ call = [op |-> "new"]
    /\ res = [panic |-> FALSE]

NextOut == WriteOutCommands

SpecOut == InitOut /\ [][NextOut]_vars

\* the parts of an axis block as the output is to show them
Toggle(a) ==
    IF a.log_base = None THEN "unset logscale " \o a.axis
    ELSE "set logscale " \o a.axis \o " " \o Fmt12e(a.log_base[1])

Bound(b) == IF b = Auto THEN "*" ELSE Fmt12e(b[1])

Range(a) == "set " \o a.axis \o "range [" \o Bound(a.min) \o ":" \o Bound(a.max) \o "]"

\* log-scale toggle, minor-tick directive, range directive, tick buffer: a
\* newline behind each directive and an empty line before the range
Block(a, minor) ==
    Toggle(a) \o "\n" \o minor \o "\n" \o "\n" \o Range(a) \o "\n" \o a.ticks_buf

\* mticks + 1 as an i32 sum that wraps
CountPlusOne(a) == IF a.mticks = MaxI32 THEN MinI32 ELSE a.mticks + 1

\* the minor-tick directive as the claim words it, n the count written
MinorAsStated(a, n) ==
    "set m" \o a.axis \o "tics "
    \o (IF a.log_base # None THEN "default" ELSE ToString(n))

\* the minor-tick directive with its third form
MinorDirective(a) ==
    IF a.mticks <= 0 THEN "unset m" \o a.axis \o "tics"
    ELSE IF a.log_base # None THEN "set m" \o a.axis \o "tics default"
    ELSE "set m" \o a.axis \o "tics " \o ToString(CountPlusOne(a))

\* the sum mticks + 1 is computed and does not fit an i32
Overflows(a) == a.mticks = MaxI32 /\ a.log_base = None

\* C13 (the claim as stated): the output is the command buffer, then the x,
\* y and cb blocks, each the log-scale toggle, the minor-tick directive, the
\* range directive and the tick buffer; the minor-tick directive is the
\* "default" form on a log axis and a numeric count (the stored count, or
\* the stored count plus one) otherwise.
C13_BlocksWithDefaultOrCount ==
    call.op = "write_out_commands" =>
        /\ ~res.panic
        /\ \E nx \in {x_axis.mticks, CountPlusOne(x_axis)},
              ny \in {y_axis.mticks, CountPlusOne(y_axis)},
              ncb \in {cb_axis.mticks, CountPlusOne(cb_axis)} :
              res.out = commands \o Block(x_axis, MinorAsStated(x_axis, nx))
                        \o Block(y_axis, MinorAsStated(y_axis, ny))
                        \o Block(cb_axis, MinorAsStated(cb_axis, ncb))

\* C13: the same order of blocks and of directives, the minor-tick directive
\* being the "unset" form when the stored count is not positive, else the
\* "default" form on a log axis and the stored count plus one otherwise; the
\* call fails only when that sum overflows an i32 under overflow checks
\* (without them the sum wraps).
C13_BlocksWithUnsetDefaultOrCount ==
    call.op = "write_out_commands" =>
        /\ res.panic <=> (/\ call.overflow_checks
                          /\ \E a \in {x_axis, y_axis, cb_axis} : Overflows(a))
        /\ ~res.panic =>
              res.out = commands \o Block(x_axis, MinorDirective(x_axis))
                        \o Block(y_axis, MinorDirective(y_axis))
                        \o Block(cb_axis, MinorDirective(cb_axis))

\* C13 witness: a log x axis with 3 minor ticks, a linear y axis with 3
\* minor ticks, a colour bar with hidden ticks, behind one command
C13_Witness ==
    /\ call.op = "write_out_commands" /\ ~res.panic
    /\ res.out = "set size noratio\n"
         \o "set logscale x 1.000000000000e1\n" \o "set mxtics default\n" \o "\n"
         \o "set xrange [*:1.000000000000e1]\n"
         \o "set xtics autofreq scale 5.000000000000e-1,5.000000000000e-1\n"
         \o "unset logscale y\n" \o "set mytics 4\n" \o "\n"
         \o "set yrange [0.000000000000e0:*]\n"
         \o "set ytics autofreq scale 5.000000000000e-1,5.000000000000e-1\n"
         \o "unset logscale cb\n" \o "unset mcbtics\n" \o "\n"
         \o "set cbrange [*:*]\n"
         \o "unset cbtics\n"

\* ---------------------------------------------------------------------
\* set_palette, and runs that mix plot calls and command setters

\* PaletteType
Gray(gamma) == [kind |-> "Gray", gamma |-> gamma]
Formula(r, g, b) == [kind |-> "Formula", r |-> r, g |-> g, b |-> b]
CubeHelix(start, rev, sat, gamma) ==
    [kind |-> "CubeHelix", start |-> start, rev |-> rev, sat |-> sat, gamma |-> gamma]

\* set_palette: the asserts of the palette's kind, then its line
palette_line(palette) ==
    CASE palette.kind = "Gray" ->
           IF ~FGt(palette.gamma, F(0)) THEN Panics
           ELSE Wrote("set palette gray gamma " \o Fmt12e(palette.gamma) \o "\n")
      [] palette.kind = "Formula" ->
           IF ~(palette.r >= -36 /\ palette.r <= 36) THEN Panics
           ELSE IF ~(palette.g >= -36 /\ palette.g <= 36) THEN Panics
           ELSE IF ~(palette.b >= -36 /\ palette.b <= 36) THEN Panics
           ELSE Wrote("set palette rgbformulae " \o ToString(palette.r) \o ","
                      \o ToString(palette.g) \o "," \o ToString(palette.b) \o "\n")
      [] palette.kind = "CubeHelix" ->
           IF ~FGe(palette.sat, F(0)) THEN Panics
           ELSE IF ~FGt(palette.gamma, F(0)) THEN Panics
           ELSE Wrote("set palette cubehelix start " \o Fmt12e(palette.start)
                      \o " cycles " \o Fmt12e(palette.rev)
                      \o " saturation " \o Fmt12e(palette.sat)
                      \o " gamma " \o Fmt12e(palette.gamma) \o "\n")

set_palette(palette) ==
    /\ ~panicked
    /\ LET r == palette_line(palette)
       IN  /\ commands' = IF r.panic THEN commands ELSE commands \o r.text
           /\ panicked' = r.panic
           /\ res' = [panic |-> r.panic]
    /\ ncmds' = ncmds + 1
    /\ call' = [op |-> "set_palette", palette |-> palette]
    /\ UNCHANGED <<elems, grid_rows, grid_cols, grid_pos, x_axis, y_axis, cb_axis,
                   last_pos, focus>>

Palettes ==
    {Gray(F(1)), Gray(F(0)), Formula(7, 5, 15), Formula(7, 37, 15),
     CubeHelix(Rat(1, 2), F(-1), F(0), F(1))}

SetPalette == ncmds < MaxCmds /\ \E palette \in Palettes : set_palette(palette)

AddLabel ==
    /\ ncmds < MaxCmds
    /\ \/ set_label_common(LabelType("TitleLabel"), "a", <<TextColor("red")>>)
       \/ set_label_common(LabelType("XLabel"), "", <<>>)
       \/ set_label_common(Label("1", "2"), "b", <<MarkerSymbol("Q")>>)

AddCustomPalette ==
    /\ ncmds < MaxCmds
    /\ \/ set_custom_palette(<<<<F(0), F(0), F(0), F(0)>>, <<F(1), F(1), F(1), F(1)>>>>)
       \/ set_custom_palette(<<<<F(1), F(0), F(0), F(0)>>, <<F(0), F(1), F(1), F(1)>>>>)

NextGrow ==
    \/ AddPlot2 \/ AddPlot3 \/ AddPlotMatrix
    \/ SetPos \/ SetSize \/ SetAspectRatio
    \/ AddLabel \/ SetPalette \/ AddCustomPalette
    \/ SetLog

SpecGrow == Init /\ [][NextGrow]_vars

PlotCalls == {"plot2", "plot3", "plot_matrix"}

CommandSetters ==
    {"set_pos", "set_size", "set_aspect_ratio", "set_label_common", "set_palette",
     "set_custom_palette"}

\* the text a command setter is to add behind the buffer it found
Appended(c) ==
    CASE c.op = "set_pos" ->
           "set origin " \o Fmt12e(c.x) \o "," \o Fmt12e(c.y) \o "\n"
      [] c.op = "set_size" ->
           "set size " \o Fmt12e(c.w) \o "," \o Fmt12e(c.h) \o "\n"
      [] c.op = "set_aspect_ratio" ->
           IF c.ratio = Auto THEN "set size noratio\n"
           ELSE "set size ratio " \o Fmt12e(c.ratio[1]) \o "\n"
      [] c.op = "set_label_common" ->
           LET r == write_out_label_options(c.label_type, c.options)
           IN  "set " \o label_str(c.label_type) \o " \"" \o c.text \o "\"" \o r.text
               \o (IF r.panic THEN "" ELSE "\n")
      [] c.op = "set_palette" ->
           LET r == palette_line(c.palette) IN IF r.panic THEN "" ELSE r.text
      [] c.op = "set_custom_palette" ->
           LET r == PaletteLoop(c.palette_generator, 1, TRUE, F(0),
                                "set palette defined (")
           IN  r.text \o (IF r.panic \/ r.first THEN "" ELSE ")\n")

\* C14: a plot call appends one element behind the earlier ones and leaves
\* them, the command buffer and the three axes as they were; a command
\* setter leaves the buffer it found as the prefix of the new buffer and
\* leaves the elements as they were.
C14_OutputOnlyGrows ==
    [][/\ call'.op \in PlotCalls =>
             /\ Len(elems') = Len(elems) + 1
             /\ SubSeq(elems', 1, Len(elems)) = elems
             /\ commands' = commands
             /\ UNCHANGED <<x_axis, y_axis, cb_axis>>
       /\ call'.op \in CommandSetters =>
             /\ commands' = commands \o Appended(call')
             /\ elems' = elems
      ]_vars

\* C14 witness: two set_pos calls behind a plot call; both origin
\* directives are in the buffer in call order and the element is untouched
C14_Witness ==
    /\ call.op = "set_pos" /\ call.x = F(0)
    /\ commands = "set origin 5.000000000000e-1,0.000000000000e0\n"
                  \o "set origin 0.000000000000e0,5.000000000000e-1\n"
    /\ Len(elems) = 1 /\ elems[1].data = <<F(1), F(11)>>

\* ---------------------------------------------------------------------
\* The style clauses of a directive fragment

\* longest option list of a styled plot call
MaxStyleOpts == 3

StylePool ==
    {LineWidth(F(2)), LineStyle("Dash"), PointSymbol("o"), PointSymbol("Q"),
     PointSize(Rat(3, 2)), Color("red"), Caption("a"), FillRegion("Above"),
     FillRegion("Between"), FillAlpha(Rat(1, 2)), BorderColor("black")}

\* plot2 of one row as the first call, over all plot types and option lists
StyledPlot2 ==
    /\ elems = <<>>
    /\ \E plot_type \in PlotTypes, options \in ListsUpTo(StylePool, MaxStyleOpts) :
          plot2(plot_type, Data(0, 1), Data(10, 1), options)

NextStyle == StyledPlot2

SpecStyle == Init /\ [][NextStyle]_vars

Mode(t) ==
    CASE t = "Lines" -> "lines" [] t = "Points" -> "points"
      [] t = "LinesPoints" -> "linespoints" [] t = "XErrorLines" -> "xerrorlines"
      [] t = "YErrorLines" -> "yerrorlines" [] t = "FillBetween" -> "filledcurves"
      [] t = "Boxes" -> "boxes" [] t = "Pm3D" -> "pm3d" [] t = "Image" -> "image"

FillTypes == {"Boxes", "FillBetween"}
LineTypes == {"Lines", "LinesPoints", "XErrorLines", "YErrorLines", "Boxes"}
PointTypes == {"Points", "LinesPoints", "XErrorLines", "YErrorLines"}

Has(o, kind) == Positions(o, kind) # {}

\* region keyword (FillBetween only, "closed" by default), the fill, the
\* opacity if given, then border (with its colour if given) or noborder
ExpectedFill(t, o) ==
    (IF t # "FillBetween" THEN ""
     ELSE IF ~Has(o, "FillRegion") THEN " closed"
     ELSE CASE Earliest(o, "FillRegion").s = "Above" -> " above"
            [] Earliest(o, "FillRegion").s = "Below" -> " below"
            [] Earliest(o, "FillRegion").s = "Between" -> " closed")
    \o " fill transparent solid "
    \o (IF Has(o, "FillAlpha") THEN Fmt12e(Earliest(o, "FillAlpha").f) ELSE "")
    \o (IF t \in LineTypes
        THEN " border" \o (IF Has(o, "BorderColor")
                           THEN " rgb \"" \o Earliest(o, "BorderColor").s \o "\""
                           ELSE "")
        ELSE " noborder")

ExpectedLine(o) ==
    " lw " \o (IF Has(o, "LineWidth") THEN Fmt12e(Earliest(o, "LineWidth").f) ELSE "1")
    \o " lt " \o (IF Has(o, "LineStyle")
                  THEN ToString(DashType_to_int(Earliest(o, "LineStyle").s)) ELSE "1")

ExpectedPoints(o) ==
    (IF Has(o, "PointSymbol")
     THEN " pt " \o ToString(SymbolIndex(Earliest(o, "PointSymbol").s)) ELSE "")
    \o (IF Has(o, "PointSize") THEN " ps " \o FDisplay(Earliest(o, "PointSize").f)
        ELSE "")

ExpectedStyle(t, o) ==
    " with " \o Mode(t)
    \o (IF t \in FillTypes THEN ExpectedFill(t, o) ELSE "")
    \o (IF t \in LineTypes THEN ExpectedLine(o) ELSE "")
    \o (IF t \in PointTypes THEN ExpectedPoints(o) ELSE "")
    \o (IF Has(o, "Color") THEN " lc rgb \"" \o Earliest(o, "Color").s \o "\"" ELSE "")
    \o " t \"" \o (IF Has(o, "Caption") THEN Earliest(o, "Caption").s ELSE "") \o "\""

\* the point symbol that is to be written is one of the symbol table
SymbolOk(t, o) ==
    (t \in PointTypes /\ Has(o, "PointSymbol")) =>
        \E i \in 1..Len(SymbolTable) : SymbolTable[i] = Earliest(o, "PointSymbol").s

\* C15: behind the source clause the fragment has "with <mode>", the fill
\* clause exactly for Boxes and FillBetween (region keyword for FillBetween
\* only, "closed" by default; "border" with the border colour if given for
\* Boxes, "noborder" for FillBetween), "lw <w> lt <s>" exactly for the line
\* types (1 and 1 by default), point symbol and size for the point types
\* when given, the colour when given, and last the caption; the call fails
\* only on a point symbol outside the symbol table.
C15_StyleClausesInOrder ==
    call.op = "plot2" =>
        /\ panicked <=> ~SymbolOk(call.plot_type, call.options)
        /\ ~panicked =>
              LastElem.args =
                  RecordDirective(Min(Len(call.x1), Len(call.x2))) \o "1:2"
                  \o ExpectedStyle(call.plot_type, call.options)

\* C15 witness: boxes with a border colour, an opacity and a colour
C15_Witness ==
    /\ call.op = "plot2" /\ call.plot_type = "Boxes"
    /\ call.options = <<BorderColor("black"), FillAlpha(Rat(1, 2)), Color("red")>>
    /\ LastElem.args =
         " \"-\" binary endian=little record=1 format=\"%float64\" using 1:2"
         \o " with boxes fill transparent solid 5.000000000000e-1 border rgb \"black\""
         \o " lw 1 lt 1 lc rgb \"red\" t \"\""

====
